---- MODULE Spec2Model ----
(***************************************************************************)
(* Model of migrate_and_rename.py: bulk copy of SQL Server tables into     *)
(* Postgres, driven by a YAML configuration.                               *)
(*                                                                         *)
(* Strings whose content matters (identifiers, type tags) are sequences of *)
(* one-character strings.  A batch of rows is the pair <<lo, hi>> of the   *)
(* first and last row number of the query result it carries; the empty     *)
(* batch is <<>>.  A destination table is a record: whether it exists and  *)
(* the batches it holds, in insertion order.                               *)
(***************************************************************************)
EXTENDS Integers, Sequences, FiniteSets, TLC

\* ------------------------------------------------------------------ bounds
MaxRuns == 2        \* invocations of main against the same destination
MaxChunks == 2      \* full chunks in the largest query result

\* --------------------------------------------------------------- constants
CHUNK_SIZE == 50000

\* ----------------------------------------------------------------- strings
UpperChars == <<"A","B","C","D","E","F","G","H","I","J","K","L","M",
                "N","O","P","Q","R","S","T","U","V","W","X","Y","Z">>
LowerChars == <<"a","b","c","d","e","f","g","h","i","j","k","l","m",
                "n","o","p","q","r","s","t","u","v","w","x","y","z">>

\* the characters \s matches among those used here
IsSpace(c) == c \in {" ", "\t", "\n"}

LowerChar(c) ==
  IF \E i \in 1..Len(UpperChars) : UpperChars[i] = c
  THEN LowerChars[CHOOSE i \in 1..Len(UpperChars) : UpperChars[i] = c]
  ELSE c

\* str.lower()
Lower(s) == [i \in 1..Len(s) |-> LowerChar(s[i])]

RECURSIVE LStrip(_)
LStrip(s) ==
  IF s = <<>> THEN <<>>
  ELSE IF IsSpace(Head(s)) THEN LStrip(Tail(s)) ELSE s

RECURSIVE RStrip(_)
RStrip(s) ==
  IF s = <<>> THEN <<>>
  ELSE IF IsSpace(s[Len(s)]) THEN RStrip(SubSeq(s, 1, Len(s) - 1)) ELSE s

\* str.strip()
Strip(s) == RStrip(LStrip(s))

\* re.sub(r'\s+', '_', s): every maximal run of whitespace becomes one "_"
RECURSIVE SubSpaces(_)
SubSpaces(s) ==
  IF s = <<>> THEN <<>>
  ELSE IF IsSpace(Head(s)) THEN <<"_">> \o SubSpaces(LStrip(s))
  ELSE <<Head(s)>> \o SubSpaces(Tail(s))

sanitize(name) == Lower(SubSpaces(Strip(name)))

\* Python's  sub in s  on strings
Contains(s, sub) ==
  \E i \in 1..(Len(s) - Len(sub) + 1) : SubSeq(s, i, i + Len(sub) - 1) = sub

BinaryMarker == <<"b","i","n","a","r","y">>

\* ------------------------------------------------------ the source catalog
Col(n, t) == [name |-> n, type |-> t]

TInt       == <<"i","n","t">>
TNVarchar  == <<"n","v","a","r","c","h","a","r">>
TVarbinary == <<"v","a","r","b","i","n","a","r","y">>
TBINARY    == <<"B","I","N","A","R","Y">>
TVarBinary == <<"V","a","r","B","i","n","a","r","y">>
TImage     == <<"i","m","a","g","e">>

\* what INFORMATION_SCHEMA.COLUMNS may list for a table, in catalog order
Catalogs ==
  { <<>>,
    << Col(<<"I","d">>, TInt), Col(<<"P","h","o","t","o">>, TVarBinary),
       Col(<<" ","F"," "," ","N">>, TNVarchar) >>,
    << Col(<<"S","i","g">>, TBINARY), Col(<<"B","l","o","b">>, TVarbinary) >>,
    << Col(<<"F"," ","N">>, TNVarchar), Col(<<"f","_","n">>, TNVarchar),
       Col(<<"R","a","w">>, TImage) >> }

Names(rows) == [i \in 1..Len(rows) |-> rows[i].name]

\* the type tag is matched without lower-casing it
NonBinaryRow_CaseSensitive(row) == ~Contains(row.type, BinaryMarker)

NonBinaryRow(row) == ~Contains(Lower(row.type), BinaryMarker)

fetch_column_info(cat) ==
  LET filtered == Names(SelectSeq(cat, NonBinaryRow))
      all_cols == Names(cat)
  IN  IF filtered # <<>> THEN filtered ELSE all_cols

\* -------------------------------------------------------- the configuration
\* cfg['sources'][s]['tables'], as table numbers
SourceTables == << <<1, 2, 3>>, <<4>> >>

\* tbl_cfg['name'] of each table
TableName == << <<" ","O","r","d"," ">>, <<"O","r","d"," "," ","L","n">>,
                <<"u","s","r">>, <<"o","r","d">> >>

Sources == 1..Len(SourceTables)
Tables  == 1..Len(TableName)
DestNames == { sanitize(TableName[t]) : t \in Tables }

\* ---------------------------------------------------------- query building
DigitChars == <<"0","1","2","3","4","5","6","7","8","9">>

\* str(n) of a non-negative integer, as an f-string renders it
RECURSIVE Digits(_)
Digits(n) ==
  IF n < 10 THEN <<DigitChars[n + 1]>>
  ELSE Digits(n \div 10) \o <<DigitChars[(n % 10) + 1]>>

\* sep.join(items)
RECURSIVE Join(_, _)
Join(sep, items) ==
  IF items = <<>> THEN <<>>
  ELSE IF Len(items) = 1 THEN items[1]
  ELSE items[1] \o sep \o Join(sep, Tail(items))

KwSelect  == <<"S","E","L","E","C","T"," ">>
KwTop     == <<"T","O","P"," ">>
KwFrom    == <<" ","F","R","O","M"," ","[">>
KwWhere   == <<"W","H","E","R","E"," ">>
KwAnd     == <<" ","A","N","D"," ">>
KwOrderBy == <<"O","R","D","E","R"," ","B","Y"," ">>
CommaSp   == <<","," ">>
DefaultSchema == <<"d","b","o">>

\* a key of tbl_cfg that is missing (or null) in the YAML
Unset == [kind |-> "none", val |-> <<>>]
\* a key holding one string
OneStr(x) == [kind |-> "str", val |-> <<x>>]
\* a key holding a list of strings
StrList(xs) == [kind |-> "list", val |-> xs]
\* a key holding an integer
NoInt == [set |-> FALSE, n |-> 0]
IntVal(k) == [set |-> TRUE, n |-> k]

PredA == <<"a","=","1">>
PredB == <<"b","=","2">>
OrdX  == <<"x">>
OrdY  == <<"y">>
OrdXDesc == <<"x"," ","D","E","S","C">>
SchemaHr == <<"h","r">>
DateCol  == <<"d","t">>

WhereOptions ==
  { Unset, OneStr(PredA), StrList(<<PredA, PredB>>), StrList(<<PredB, PredA>>),
    StrList(<<PredB>>), StrList(<<>>) }
OrderOptions ==
  { Unset, OneStr(OrdXDesc), StrList(<<OrdX, OrdY>>), StrList(<<OrdY, OrdX>>) }
LimitOptions == { NoInt, IntVal(100), IntVal(7) }
SchemaOptions == { Unset, OneStr(SchemaHr) }
RecencyOptions ==
  { [date_column |-> Unset, lookback_days |-> NoInt],
    [date_column |-> OneStr(DateCol), lookback_days |-> IntVal(30)] }

TblCfg(sc, lim, wh, ob, rec) ==
  [schema |-> sc, limit |-> lim, where |-> wh, order_by |-> ob,
   date_column |-> rec.date_column, lookback_days |-> rec.lookback_days]

\* the table configurations a YAML file may hold
TableCfgs ==
  { TblCfg(sc, lim, wh, ob, rec) :
      sc \in SchemaOptions, lim \in LimitOptions, wh \in WhereOptions,
      ob \in OrderOptions, rec \in RecencyOptions }

NoRecency == [date_column |-> Unset, lookback_days |-> NoInt]
Recency30 == [date_column |-> OneStr(DateCol), lookback_days |-> IntVal(30)]

\* the configuration of the four tables of SourceTables
TableCfg ==
  << TblCfg(Unset, NoInt, Unset, Unset, NoRecency),
     TblCfg(OneStr(SchemaHr), IntVal(100), StrList(<<PredA, PredB>>),
            StrList(<<OrdX, OrdY>>), NoRecency),
     TblCfg(Unset, NoInt, Unset, OneStr(OrdXDesc), Recency30),
     TblCfg(Unset, IntVal(7), OneStr(PredA), Unset, NoRecency) >>

\* the conditions of a list are joined without parentheses
build_where_clause_NoParens(cfg) ==
  LET wc == cfg.where IN
  IF wc.kind = "none" THEN <<>>
  ELSE IF wc.kind = "list" THEN KwWhere \o Join(KwAnd, wc.val)
  ELSE KwWhere \o wc.val[1]

build_where_clause(cfg) ==
  LET wc == cfg.where IN
  IF wc.kind = "none" THEN <<>>
  ELSE IF wc.kind = "list"
  THEN LET joined == Join(KwAnd, [i \in 1..Len(wc.val) |->
                                    <<"(">> \o wc.val[i] \o <<")">>])
       IN  KwWhere \o joined
  ELSE KwWhere \o wc.val[1]

build_order_clause(cfg) ==
  LET ob == cfg.order_by IN
  IF ob.kind = "none" THEN <<>>
  ELSE IF ob.kind = "list" THEN KwOrderBy \o Join(CommaSp, ob.val)
  ELSE KwOrderBy \o ob.val[1]

\* tbl_cfg.get('schema', 'dbo')
SchemaOf(cfg) ==
  IF cfg.schema.kind = "none" THEN DefaultSchema ELSE cfg.schema.val[1]

\* sel_cols, top, where, order and the f-string of transfer_table
BuildSql(cfg, orig_name, columns) ==
  LET sel_cols == Join(CommaSp, [i \in 1..Len(columns) |->
                                   <<"[">> \o columns[i] \o <<"]">>])
      top   == IF cfg.limit.set /\ cfg.limit.n # 0
               THEN KwTop \o Digits(cfg.limit.n) \o <<" ">> ELSE <<>>
      where == build_where_clause(cfg)
      order == build_order_clause(cfg)
  IN  KwSelect \o top \o sel_cols \o KwFrom \o SchemaOf(cfg)
        \o <<"]", ".", "[">> \o orig_name \o <<"]", " ">>
        \o where \o <<" ">> \o order

\* ------------------------------------------------------------ query results
\* number of rows the built query may return
RowCounts ==
  {0, 1, CHUNK_SIZE} \cup { k * CHUNK_SIZE + 12345 : k \in {MaxChunks} }

Min(a, b) == IF a < b THEN a ELSE b

\* cursor.fetchmany(size) on a cursor over n rows of which pos were consumed
fetchmany(n, pos, size) ==
  IF pos >= n THEN <<>> ELSE <<pos + 1, Min(pos + size, n)>>

BatchLen(b) == IF b = <<>> THEN 0 ELSE b[2] - b[1] + 1

\* the running total is overwritten by the batch size
Accumulate_Assign(t, n) == n

\* total += len(df)
Accumulate(t, n) == t + n

\* --------------------------------------------------------- the destination
Absent == [exists |-> FALSE, rows |-> <<>>]

\* the old table is kept
drop_table_Kept(d, table) == d

\* DROP TABLE IF EXISTS "table", committed
drop_table_if_exists(d, table) == [d EXCEPT ![table] = Absent]

\* df.to_sql(table, if_exists='append'): creates the table when absent
to_sql(tbl, batch) == [exists |-> TRUE, rows |-> Append(tbl.rows, batch)]

RECURSIVE AppendAll(_, _)
AppendAll(tbl, batches) ==
  IF batches = <<>> THEN tbl
  ELSE AppendAll(to_sql(tbl, Head(batches)), Tail(batches))

\* every append is committed on its own
TxExit_Autocommit(d, table, batches, ok) ==
  [d EXCEPT ![table] = AppendAll(d[table], batches)]

\* leaving  with pg_engine.begin():  commit on normal exit, rollback when an
\* exception passes through
TxExit(d, table, batches, ok) ==
  IF ok THEN [d EXCEPT ![table] = AppendAll(d[table], batches)] ELSE d

\* rows that were in the destination before the first run
StaleBatch == <<900001, 900002>>
PriorTables == { Absent,
                 [exists |-> TRUE, rows |-> <<StaleBatch>>],
                 [exists |-> TRUE, rows |-> <<fetchmany(1, 0, CHUNK_SIZE)>>] }

\* -------------------------------------------------------------------- state
VARIABLES
  srcEnabled,     \* src.get('enabled', True) of each source
  tblEnabled,     \* tbl_cfg.get('enabled', True) of each table
  tblCfg,         \* the other keys of each table's tbl_cfg
  run,            \* which invocation of main this is
  pc,             \* where main is
  srcIdx,         \* position of  for src in cfg['sources']
  tblIdx,         \* position of  for tbl in src['tables']
  status,         \* per table: how far its transfer got in this run
  engineCreated,  \* calls of create_pg_engine in this run
  engineDisposed, \* calls of pg_engine.dispose in this run
  opened,         \* per source: calls of pyodbc.connect in this run
  closed,         \* per source: calls of sql_conn.close in this run
  srcCalls,       \* per source: steps that used the source in this run
  dropCount,      \* per table: DROP TABLE statements issued in this run
  queryCount,     \* per table: source queries executed in this run
  appendCount,    \* per table: to_sql calls that returned in this run
  catalog,        \* the rows the catalog query returned
  cols,           \* transfer_table's cols
  sanitized_cols, \* transfer_table's sanitized_cols
  cursorN,        \* rows in the result of the executed query
  cursorPos,      \* rows of it already fetched
  rows,           \* the batch returned by the last fetchmany
  fetched,        \* the non-empty batches fetched so far, in order
  total,          \* transfer_table's total
  tx,             \* batches appended in the open destination transaction
  sql,            \* the query text handed to cursor.execute
  dest            \* committed destination tables, by name

vars == << srcEnabled, tblEnabled, tblCfg, sql, run, pc, srcIdx, tblIdx, status,
           engineCreated, engineDisposed, opened, closed, srcCalls,
           dropCount, queryCount, appendCount, catalog, cols,
           sanitized_cols, cursorN, cursorPos, rows, fetched, total, tx, dest >>

cfgVars   == << srcEnabled, tblEnabled, tblCfg >>
localVars == << sql, catalog, cols, sanitized_cols, cursorN, cursorPos, rows, fetched,
                total, tx >>
countVars == << engineCreated, engineDisposed, opened, closed, srcCalls,
                dropCount, queryCount, appendCount >>

\* the table and source the loops are at
CurSrc == srcIdx
CurTables == SourceTables[srcIdx]
CurTbl == CurTables[tblIdx]
CurDest == sanitize(TableName[CurTbl])

FreshLocals ==
  /\ sql = <<>>
  /\ catalog = <<>>
  /\ cols = <<>>
  /\ sanitized_cols = <<>>
  /\ cursorN = 0
  /\ cursorPos = 0
  /\ rows = <<>>
  /\ fetched = <<>>
  /\ total = 0
  /\ tx = <<>>

FreshRun ==
  /\ pc = "start"
  /\ srcIdx = 1
  /\ tblIdx = 1
  /\ status = [t \in Tables |-> "pending"]
  /\ engineCreated = 0
  /\ engineDisposed = 0
  /\ opened = [s \in Sources |-> 0]
  /\ closed = [s \in Sources |-> 0]
  /\ srcCalls = [s \in Sources |-> 0]
  /\ dropCount = [t \in Tables |-> 0]
  /\ queryCount = [t \in Tables |-> 0]
  /\ appendCount = [t \in Tables |-> 0]
  /\ FreshLocals

Init ==
  /\ srcEnabled \in [Sources -> BOOLEAN]
  /\ tblEnabled \in [Tables -> BOOLEAN]
  /\ tblCfg = TableCfg
  /\ run = 1
  /\ dest \in [DestNames -> PriorTables]
  /\ FreshRun

\* ------------------------------------------------------------------- main
\* cfg = load_config(...); pg_engine = create_pg_engine(cfg['postgres'])
CreateEngine ==
  /\ pc = "start"
  /\ engineCreated' = engineCreated + 1
  /\ pc' = "source"
  /\ UNCHANGED << cfgVars, run, srcIdx, tblIdx, status, engineDisposed,
                  opened, closed, srcCalls, dropCount, queryCount,
                  appendCount, localVars, dest >>

\* the connection is opened before the enabled flag is looked at
SkipSource_Connects ==
  /\ pc = "source"
  /\ srcIdx <= Len(SourceTables)
  /\ ~srcEnabled[srcIdx]
  /\ opened' = [opened EXCEPT ![srcIdx] = @ + 1]
  /\ closed' = [closed EXCEPT ![srcIdx] = @ + 1]
  /\ srcCalls' = [srcCalls EXCEPT ![srcIdx] = @ + 2]
  /\ status' = [t \in Tables |->
                  IF \E i \in 1..Len(CurTables) : CurTables[i] = t
                  THEN "skipped-disabled" ELSE status[t]]
  /\ srcIdx' = srcIdx + 1
  /\ UNCHANGED << cfgVars, run, pc, tblIdx, engineCreated, engineDisposed,
                  dropCount, queryCount, appendCount, localVars, dest >>

\* if not src.get('enabled', True): print(...); continue
SkipSource ==
  /\ pc = "source"
  /\ srcIdx <= Len(SourceTables)
  /\ ~srcEnabled[srcIdx]
  /\ status' = [t \in Tables |->
                  IF \E i \in 1..Len(CurTables) : CurTables[i] = t
                  THEN "skipped-disabled" ELSE status[t]]
  /\ srcIdx' = srcIdx + 1
  /\ UNCHANGED << cfgVars, run, pc, tblIdx, countVars, localVars, dest >>

\* conn_str = build_sql_server_conn_str(src); sql_conn = pyodbc.connect(...)
OpenSource ==
  /\ pc = "source"
  /\ srcIdx <= Len(SourceTables)
  /\ srcEnabled[srcIdx]
  /\ opened' = [opened EXCEPT ![srcIdx] = @ + 1]
  /\ srcCalls' = [srcCalls EXCEPT ![srcIdx] = @ + 1]
  /\ tblIdx' = 1
  /\ pc' = "table"
  /\ UNCHANGED << cfgVars, run, srcIdx, status, engineCreated,
                  engineDisposed, closed, dropCount, queryCount,
                  appendCount, localVars, dest >>

\* the table loop is exhausted: sql_conn.close()
CloseSource ==
  /\ pc = "table"
  /\ tblIdx > Len(CurTables)
  /\ closed' = [closed EXCEPT ![srcIdx] = @ + 1]
  /\ srcCalls' = [srcCalls EXCEPT ![srcIdx] = @ + 1]
  /\ srcIdx' = srcIdx + 1
  /\ tblIdx' = 1
  /\ pc' = "source"
  /\ UNCHANGED << cfgVars, run, status, engineCreated, engineDisposed,
                  opened, dropCount, queryCount, appendCount, localVars,
                  dest >>

\* the source loop is exhausted: pg_engine.dispose()
Dispose ==
  /\ pc = "source"
  /\ srcIdx > Len(SourceTables)
  /\ engineDisposed' = engineDisposed + 1
  /\ pc' = "done"
  /\ UNCHANGED << cfgVars, run, srcIdx, tblIdx, status, engineCreated,
                  opened, closed, srcCalls, dropCount, queryCount,
                  appendCount, localVars, dest >>

\* an exception leaves transfer_table; main has no handler, so it leaves
\* main as well and the interpreter exits
Propagate ==
  /\ status' = [status EXCEPT ![CurTbl] = "failed"]
  /\ pc' = "crashed"
  /\ sql' = <<>>
  /\ catalog' = <<>>
  /\ cols' = <<>>
  /\ sanitized_cols' = <<>>
  /\ cursorN' = 0
  /\ cursorPos' = 0
  /\ rows' = <<>>
  /\ fetched' = <<>>
  /\ total' = 0
  /\ tx' = <<>>
  /\ UNCHANGED << cfgVars, run, srcIdx, tblIdx >>

\* transfer_table returns: the table loop moves on
Return(st) ==
  /\ status' = [status EXCEPT ![CurTbl] = st]
  /\ tblIdx' = tblIdx + 1
  /\ pc' = "table"
  /\ sql' = <<>>
  /\ catalog' = <<>>
  /\ cols' = <<>>
  /\ sanitized_cols' = <<>>
  /\ cursorN' = 0
  /\ cursorPos' = 0
  /\ rows' = <<>>
  /\ fetched' = <<>>
  /\ total' = 0
  /\ tx' = <<>>
  /\ UNCHANGED << cfgVars, run, srcIdx >>

\* --------------------------------------------------------- transfer_table
\* if not tbl_cfg.get('enabled', True): print(...); return
SkipTable ==
  /\ pc = "table"
  /\ tblIdx <= Len(CurTables)
  /\ ~tblEnabled[CurTbl]
  /\ Return("skipped-disabled")
  /\ UNCHANGED << countVars, dest >>

\* schema, orig_name, sanitized_tbl are set
EnterTable ==
  /\ pc = "table"
  /\ tblIdx <= Len(CurTables)
  /\ tblEnabled[CurTbl]
  /\ status' = [status EXCEPT ![CurTbl] = "resolve-columns"]
  /\ pc' = "resolve"
  /\ UNCHANGED << cfgVars, run, srcIdx, tblIdx, countVars, localVars, dest >>

\* cols = fetch_column_info(sql_conn, schema, orig_name)
ReadCatalog ==
  /\ pc = "resolve"
  /\ \E cat \in Catalogs :
       /\ catalog' = cat
       /\ cols' = fetch_column_info(cat)
  /\ srcCalls' = [srcCalls EXCEPT ![srcIdx] = @ + 1]
  /\ pc' = "resolved"
  /\ UNCHANGED << cfgVars, run, srcIdx, tblIdx, status, engineCreated,
                  engineDisposed, opened, closed, dropCount, queryCount,
                  appendCount, sql, sanitized_cols, cursorN, cursorPos, rows,
                  fetched, total, tx, dest >>

\* the destination table is dropped before the column list is looked at
CheckCols_DropsFirst ==
  /\ pc = "resolved"
  /\ IF cols = <<>>
     THEN /\ Return("skipped-empty")
          /\ dest' = drop_table_if_exists(dest, CurDest)
          /\ dropCount' = [dropCount EXCEPT ![CurTbl] = @ + 1]
     ELSE /\ sanitized_cols' = [i \in 1..Len(cols) |-> sanitize(cols[i])]
          /\ catalog' = <<>>
          /\ status' = [status EXCEPT ![CurTbl] = "replace"]
          /\ pc' = "replace"
          /\ UNCHANGED << cfgVars, run, srcIdx, tblIdx, sql, cols, cursorN,
                          cursorPos, rows, fetched, total, tx, dest,
                          dropCount >>
  /\ UNCHANGED << engineCreated, engineDisposed, opened, closed, srcCalls,
                  queryCount, appendCount >>

\* if not cols: print(...); return
\* sanitized_cols = [sanitize(c) for c in cols]
CheckCols ==
  /\ pc = "resolved"
  /\ IF cols = <<>>
     THEN Return("skipped-empty")
     ELSE /\ sanitized_cols' = [i \in 1..Len(cols) |-> sanitize(cols[i])]
          /\ catalog' = <<>>
          /\ status' = [status EXCEPT ![CurTbl] = "replace"]
          /\ pc' = "replace"
          /\ UNCHANGED << cfgVars, run, srcIdx, tblIdx, sql, cols, cursorN,
                          cursorPos, rows, fetched, total, tx >>
  /\ UNCHANGED << countVars, dest >>

\* the catalog query raises
ResolveFails ==
  /\ pc = "resolve"
  /\ Propagate
  /\ srcCalls' = [srcCalls EXCEPT ![srcIdx] = @ + 1]
  /\ UNCHANGED << engineCreated, engineDisposed, opened, closed, dropCount,
                  queryCount, appendCount, dest >>

\* the DROP is left pending instead of being committed on its own
DropTable_Uncommitted ==
  /\ pc = "replace"
  /\ dropCount' = [dropCount EXCEPT ![CurTbl] = @ + 1]
  /\ status' = [status EXCEPT ![CurTbl] = "transfer"]
  /\ pc' = "query"
  /\ UNCHANGED << cfgVars, run, srcIdx, tblIdx, engineCreated,
                  engineDisposed, opened, closed, srcCalls, queryCount,
                  appendCount, localVars, dest >>

\* drop_table_if_exists(pg_engine, sanitized_tbl)
DropTable ==
  /\ pc = "replace"
  /\ dest' = drop_table_if_exists(dest, CurDest)
  /\ dropCount' = [dropCount EXCEPT ![CurTbl] = @ + 1]
  /\ status' = [status EXCEPT ![CurTbl] = "transfer"]
  /\ pc' = "query"
  /\ UNCHANGED << cfgVars, run, srcIdx, tblIdx, engineCreated,
                  engineDisposed, opened, closed, srcCalls, queryCount,
                  appendCount, localVars >>

\* the DROP raises: its transaction is rolled back
DropFails ==
  /\ pc = "replace"
  /\ Propagate
  /\ dropCount' = [dropCount EXCEPT ![CurTbl] = @ + 1]
  /\ UNCHANGED << engineCreated, engineDisposed, opened, closed, srcCalls,
                  queryCount, appendCount, dest >>

\* cursor = sql_conn.cursor(); ...; cursor.execute(sql); total = 0;
\* with pg_engine.begin() as pg_conn:
ExecuteQuery ==
  /\ pc = "query"
  /\ sql' = BuildSql(tblCfg[CurTbl], TableName[CurTbl], cols)
  /\ \E n \in RowCounts : cursorN' = n
  /\ cursorPos' = 0
  /\ total' = 0
  /\ tx' = <<>>
  /\ fetched' = <<>>
  /\ queryCount' = [queryCount EXCEPT ![CurTbl] = @ + 1]
  /\ srcCalls' = [srcCalls EXCEPT ![srcIdx] = @ + 1]
  /\ pc' = "fetch"
  /\ UNCHANGED << cfgVars, run, srcIdx, tblIdx, status, engineCreated,
                  engineDisposed, opened, closed, dropCount, appendCount,
                  catalog, cols, sanitized_cols, rows, dest >>

\* cursor.execute(sql) raises
QueryFails ==
  /\ pc = "query"
  /\ Propagate
  /\ srcCalls' = [srcCalls EXCEPT ![srcIdx] = @ + 1]
  /\ UNCHANGED << engineCreated, engineDisposed, opened, closed, dropCount,
                  queryCount, appendCount, dest >>

\* the  with  block is left normally, cursor.close(), the DONE line
Finish ==
  /\ dest' = TxExit(dest, CurDest, tx, TRUE)
  /\ Return("completed")

\* rows = cursor.fetchmany(CHUNK_SIZE); if not rows: break
FetchBatch ==
  /\ pc = "fetch"
  /\ LET r == fetchmany(cursorN, cursorPos, CHUNK_SIZE) IN
       IF r = <<>>
       THEN Finish
       ELSE /\ rows' = r
            /\ fetched' = Append(fetched, r)
            /\ cursorPos' = cursorPos + BatchLen(r)
            /\ pc' = "append"
            /\ UNCHANGED << cfgVars, run, srcIdx, tblIdx, status, catalog,
                            cols, sanitized_cols, cursorN, total, tx, dest, sql >>
  /\ srcCalls' = [srcCalls EXCEPT ![srcIdx] = @ + 1]
  /\ UNCHANGED << engineCreated, engineDisposed, opened, closed, dropCount,
                  queryCount, appendCount >>

\* fetchmany raises inside the  with  block
FetchFails ==
  /\ pc = "fetch"
  /\ dest' = TxExit(dest, CurDest, tx, FALSE)
  /\ Propagate
  /\ srcCalls' = [srcCalls EXCEPT ![srcIdx] = @ + 1]
  /\ UNCHANGED << engineCreated, engineDisposed, opened, closed, dropCount,
                  queryCount, appendCount >>

\* df = pd.DataFrame(data, columns=sanitized_cols); if df.empty: break;
\* df.to_sql(..., if_exists='append'); total += len(df)
AppendBatch ==
  /\ pc = "append"
  /\ IF BatchLen(rows) = 0 \/ Len(sanitized_cols) = 0
     THEN /\ Finish
          /\ UNCHANGED appendCount
     ELSE /\ tx' = Append(tx, rows)
          /\ total' = Accumulate(total, BatchLen(rows))
          /\ appendCount' = [appendCount EXCEPT ![CurTbl] = @ + 1]
          /\ pc' = "fetch"
          /\ UNCHANGED << cfgVars, run, srcIdx, tblIdx, status, catalog,
                          cols, sanitized_cols, cursorN, cursorPos, rows,
                          fetched, dest, sql >>
  /\ UNCHANGED << engineCreated, engineDisposed, opened, closed, srcCalls,
                  dropCount, queryCount >>

\* to_sql raises inside the  with  block
AppendFails ==
  /\ pc = "append"
  /\ dest' = TxExit(dest, CurDest, tx, FALSE)
  /\ Propagate
  /\ UNCHANGED countVars

\* the script is started again with the same configuration and destination
Rerun ==
  /\ pc \in {"done", "crashed"}
  /\ run < MaxRuns
  /\ run' = run + 1
  /\ pc' = "start"
  /\ srcIdx' = 1
  /\ tblIdx' = 1
  /\ status' = [t \in Tables |-> "pending"]
  /\ engineCreated' = 0
  /\ engineDisposed' = 0
  /\ opened' = [s \in Sources |-> 0]
  /\ closed' = [s \in Sources |-> 0]
  /\ srcCalls' = [s \in Sources |-> 0]
  /\ dropCount' = [t \in Tables |-> 0]
  /\ queryCount' = [t \in Tables |-> 0]
  /\ appendCount' = [t \in Tables |-> 0]
  /\ UNCHANGED << cfgVars, localVars, dest >>

Next ==
  \/ CreateEngine
  \/ SkipSource
  \/ OpenSource
  \/ CloseSource
  \/ Dispose
  \/ SkipTable
  \/ EnterTable
  \/ ReadCatalog
  \/ CheckCols
  \/ ResolveFails
  \/ DropTable
  \/ DropFails
  \/ ExecuteQuery
  \/ QueryFails
  \/ FetchBatch
  \/ FetchFails
  \/ AppendBatch
  \/ AppendFails
  \/ Rerun

Spec == Init /\ [][Next]_vars

\* ------------------------------------------------- the query builder alone
\* the column lists fetch_column_info can return for a table that is not
\* skipped
ColLists == { fetch_column_info(cat) : cat \in Catalogs } \ { <<>> }

\* transfer_table has dropped the destination table of the first table of
\* an enabled source and is about to build and execute the query; the
\* table's configuration and its columns are any of those above
InitQuery ==
  /\ \E s \in Sources :
       /\ srcIdx = s
       /\ srcEnabled = [x \in Sources |-> x >= s]
       /\ opened = [x \in Sources |-> IF x = s THEN 1 ELSE 0]
       /\ srcCalls = [x \in Sources |-> IF x = s THEN 2 ELSE 0]
       /\ status = [t \in Tables |->
                      IF t = SourceTables[s][1] THEN "transfer"
                      ELSE IF \E x \in 1..(s - 1) :
                                \E i \in 1..Len(SourceTables[x]) :
                                  SourceTables[x][i] = t
                      THEN "skipped-disabled" ELSE "pending"]
       /\ dropCount = [t \in Tables |->
                         IF t = SourceTables[s][1] THEN 1 ELSE 0]
  /\ tblIdx = 1
  /\ tblEnabled = [t \in Tables |-> TRUE]
  /\ \E c \in TableCfgs : tblCfg = [t \in Tables |-> c]
  /\ run = 1
  /\ pc = "query"
  /\ engineCreated = 1
  /\ engineDisposed = 0
  /\ closed = [x \in Sources |-> 0]
  /\ queryCount = [t \in Tables |-> 0]
  /\ appendCount = [t \in Tables |-> 0]
  /\ sql = <<>>
  /\ catalog = <<>>
  /\ cols \in ColLists
  /\ sanitized_cols = [i \in 1..Len(cols) |-> sanitize(cols[i])]
  /\ cursorN = 0
  /\ cursorPos = 0
  /\ rows = <<>>
  /\ fetched = <<>>
  /\ total = 0
  /\ tx = <<>>
  /\ dest = [n \in DestNames |-> Absent]

NextQuery == ExecuteQuery

SpecQuery == InitQuery /\ [][NextQuery]_vars

\* ------------------------------------------------------------ properties
RunEnded == pc \in {"done", "crashed"}

InTransfer == pc \in {"fetch", "append"}

TablesOf(s) == { SourceTables[s][i] : i \in 1..Len(SourceTables[s]) }

\* the batches a result of n rows is read in, CHUNK_SIZE rows at a time
RECURSIVE ChunksFrom(_, _)
ChunksFrom(from, n) ==
  IF from > n THEN <<>>
  ELSE IF n - from + 1 <= CHUNK_SIZE THEN << <<from, n>> >>
  ELSE << <<from, from + CHUNK_SIZE - 1>> >> \o ChunksFrom(from + CHUNK_SIZE, n)

Chunks(n) == ChunksFrom(1, n)

RECURSIVE SumLen(_)
SumLen(batches) ==
  IF batches = <<>> THEN 0
  ELSE (Head(batches)[2] - Head(batches)[1] + 1) + SumLen(Tail(batches))

\* batches hold rows from..n of the result, each once, in order
RECURSIVE ExactlyRows(_, _, _)
ExactlyRows(batches, from, n) ==
  IF batches = <<>> THEN from = n + 1
  ELSE /\ Head(batches)[1] = from
       /\ Head(batches)[2] >= from
       /\ ExactlyRows(Tail(batches), Head(batches)[2] + 1, n)

Distinct(seq) ==
  \A i, j \in 1..Len(seq) : i # j => seq[i] # seq[j]

\* C1: when a run has ended, every table of the configuration was attempted:
\* a table whose transfer failed did not keep the tables after it (of the
\* same source or of later ones) from being reached.
C1_FailureIsolated ==
  RunEnded => \A t \in Tables : status[t] # "pending"

\* C2: all appends of one table's transfer are in one destination
\* transaction.  While the chunk loop runs, none of the appended batches is
\* in the committed table; when the loop is left, the committed table holds
\* every batch of the result if the transfer completed and none of them if
\* an error left the loop.  It never holds a strict non-empty prefix.
C2_AllOrNothing ==
  [][ InTransfer =>
        LET t == CurTbl
            d == dest'[sanitize(TableName[t])].rows
        IN  /\ dest[sanitize(TableName[t])].rows = <<>>
            /\ IF status'[t] = "completed" THEN d = Chunks(cursorN)
               ELSE d = <<>> ]_vars

C2_Witness ==
  \E t \in Tables :
    /\ status[t] = "failed"
    /\ appendCount[t] >= 2
    /\ dest[sanitize(TableName[t])] = Absent

\* C3: whatever the destination held before (nothing, the rows of an
\* earlier run, rows of an interrupted run, stale rows), when transfer_table
\* completes the destination table holds exactly the rows of the query
\* result it has just read, each once and in order, and it exists only if
\* there were rows; a further run over the same source leaves the same.
C3_Idempotent ==
  [][ (pc # "table" /\ pc' = "table" /\ status'[CurTbl] = "completed") =>
        LET tbl == dest'[sanitize(TableName[CurTbl])]
        IN  /\ ExactlyRows(tbl.rows, 1, cursorN)
            /\ SumLen(tbl.rows) = cursorN
            /\ tbl.exists = (cursorN > 0) ]_vars

C3_Witness ==
  /\ run = 2
  /\ status[1] = "completed"
  /\ dest[sanitize(TableName[1])].rows = Chunks(CHUNK_SIZE + CHUNK_SIZE + 12345)

\* C4: for a disabled source nothing is ever called on the source, none of
\* its tables is dropped, queried or appended to, its tables are
\* skipped-disabled once the source loop has passed it, and the step that
\* skips it leaves the destination alone and moves to the next source.
C4_DisabledSourceState ==
  \A s \in Sources :
    ~srcEnabled[s] =>
      /\ srcCalls[s] = 0
      /\ opened[s] = 0
      /\ closed[s] = 0
      /\ (srcIdx = s => pc \in {"start", "source"})
      /\ \A t \in TablesOf(s) :
           /\ dropCount[t] = 0
           /\ queryCount[t] = 0
           /\ appendCount[t] = 0
           /\ status[t] \in {"pending", "skipped-disabled"}
           /\ (srcIdx > s => status[t] = "skipped-disabled")

C4_DisabledSourceStep ==
  (pc = "source" /\ srcIdx <= Len(SourceTables) /\ ~srcEnabled[srcIdx]) =>
     /\ srcIdx' = srcIdx + 1
     /\ pc' = "source"
     /\ dest' = dest

C4_DisabledSource ==
  []C4_DisabledSourceState /\ [][C4_DisabledSourceStep]_vars

C4_Witness ==
  /\ ~srcEnabled[1]
  /\ srcEnabled[2]
  /\ opened[2] = 1
  /\ \A t \in TablesOf(1) : status[t] = "skipped-disabled"

\* C5: when a run has ended, every enabled source was connected to exactly
\* once and its connection was closed exactly once.
C5_ConnectionClosed ==
  RunEnded =>
    \A s \in Sources : srcEnabled[s] => (opened[s] = 1 /\ closed[s] = 1)

\* C6: when a run has ended, the destination engine was created exactly
\* once and disposed exactly once.
C6_EngineDisposed ==
  RunEnded => (engineCreated = 1 /\ engineDisposed = 1)

\* C7: during a transfer the appends are the fetched non-empty batches, one
\* append per batch, in fetch order; a fetched batch is appended before the
\* next fetch; the running total is the sum of the sizes of the appended
\* batches; and when the transfer completes the number of appends is the
\* number of chunks of the result and the total is its number of rows.
C7_AppendsFollowFetches ==
  InTransfer =>
    /\ appendCount[CurTbl] = Len(tx)
    /\ total = SumLen(tx)
    /\ \A i \in 1..Len(tx) : tx[i] = fetched[i] /\ tx[i] = Chunks(cursorN)[i]
    /\ (pc = "fetch" => fetched = tx)
    /\ (pc = "append" => rows # <<>> /\ fetched = Append(tx, rows))

C7_FinalTotal ==
  (InTransfer /\ status'[CurTbl] = "completed") =>
     /\ total = cursorN
     /\ appendCount[CurTbl] = Len(Chunks(cursorN))
     /\ tx = Chunks(cursorN)

C7_ChunkedTransfer ==
  []C7_AppendsFollowFetches /\ [][C7_FinalTotal]_vars

C7_Witness ==
  /\ pc = "fetch"
  /\ appendCount[CurTbl] = 3
  /\ total = 112345
  /\ cursorPos = cursorN
  /\ tx = << <<1, 50000>>, <<50001, 100000>>, <<100001, 112345>> >>

\* C8: a table's status moves along pending, resolve-columns, replace,
\* transfer, with the exits skipped-disabled (from pending), skipped-empty
\* (from resolve-columns), completed (from transfer) and failed; the drop is
\* issued at most once per table and run, a query or an append for a table
\* is preceded by its drop, the dropped table is absent in the committed
\* destination from the drop until the transfer is left, and no drop is
\* issued for a disabled table or one with no columns.
C8_DropState ==
  /\ \A t \in Tables :
       /\ dropCount[t] <= 1
       /\ (queryCount[t] > 0 \/ appendCount[t] > 0) => dropCount[t] = 1
       /\ queryCount[t] <= 1
       /\ ~tblEnabled[t] => dropCount[t] = 0
       /\ status[t] \in {"pending", "resolve-columns", "replace",
                         "skipped-disabled", "skipped-empty"}
            => (dropCount[t] = 0 /\ queryCount[t] = 0 /\ appendCount[t] = 0)
       /\ status[t] \in {"transfer", "completed"} => dropCount[t] = 1
  /\ pc \in {"query", "fetch", "append"} =>
       (status[CurTbl] = "transfer" /\ dest[CurDest] = Absent)

C8_PathStep ==
  \A t \in Tables :
    (status'[t] # status[t] /\ run' = run) =>
      \/ status[t] = "pending" /\ status'[t] \in {"skipped-disabled",
                                                  "resolve-columns"}
      \/ status[t] = "resolve-columns" /\ status'[t] \in {"skipped-empty",
                                                          "replace", "failed"}
      \/ status[t] = "replace" /\ status'[t] \in {"transfer", "failed"}
      \/ status[t] = "transfer" /\ status'[t] \in {"completed", "failed"}

C8_TablePath ==
  []C8_DropState /\ [][C8_PathStep]_vars

C8_Witness ==
  \E t, u \in Tables :
    /\ status[t] = "completed"
    /\ dropCount[t] = 1
    /\ appendCount[t] >= 1
    /\ status[u] = "skipped-empty"
    /\ dropCount[u] = 0

\* C9: a table whose sanitized column names are not pairwise distinct never
\* gets to the replace or transfer stage: nothing is dropped, queried or
\* appended for it.
C9_NoCollisionWritten ==
  pc \in {"replace", "query", "fetch", "append"} => Distinct(sanitized_cols)

\* C10: fetch_column_info returns the names of the columns whose type tag is
\* not a binary one, in catalog order, when there is such a column; all the
\* names in catalog order when every column is binary; and the empty
\* sequence when the catalog lists no column.
BinaryTypeTags == {TVarbinary, TBINARY, TVarBinary}

RECURSIVE NonBinaryNames(_)
NonBinaryNames(cat) ==
  IF cat = <<>> THEN <<>>
  ELSE IF Head(cat).type \in BinaryTypeTags THEN NonBinaryNames(Tail(cat))
  ELSE <<Head(cat).name>> \o NonBinaryNames(Tail(cat))

C10_ColumnResolver ==
  pc = "resolved" =>
    /\ catalog = <<>> => cols = <<>>
    /\ NonBinaryNames(catalog) # <<>> => cols = NonBinaryNames(catalog)
    /\ (catalog # <<>> /\ NonBinaryNames(catalog) = <<>>) =>
         (Len(cols) = Len(catalog)
          /\ \A i \in 1..Len(catalog) : cols[i] = catalog[i].name)

C10_Witness ==
  /\ pc = "resolved"
  /\ catalog # <<>>
  /\ \A i \in 1..Len(catalog) : catalog[i].type \in BinaryTypeTags
  /\ Len(cols) = 2

\* C11: the built query is SELECT, the row cap when 'limit' is set, the
\* bracketed columns in resolver order, FROM [schema].[name], the WHERE
\* clause and the ORDER BY clause, in that order.  The WHERE clause is
\* missing iff 'where' is unconfigured, is the predicate itself for a string
\* and the parenthesized predicates joined by AND, in list order, for a
\* list; the ORDER BY clause is missing iff 'order_by' is unconfigured, is
\* the string itself for a string and the items joined by commas, in list
\* order, for a list; TOP n follows SELECT directly iff 'limit' is set.
IndexOf(s, sub) ==
  IF Contains(s, sub)
  THEN CHOOSE i \in 1..Len(s) :
         /\ SubSeq(s, i, i + Len(sub) - 1) = sub
         /\ \A j \in 1..(i - 1) : SubSeq(s, j, j + Len(sub) - 1) # sub
  ELSE 0

StartsWith(s, pre) == Len(s) >= Len(pre) /\ SubSeq(s, 1, Len(pre)) = pre

RECURSIVE AndAll(_)
AndAll(preds) ==
  IF preds = <<>> THEN <<>>
  ELSE LET last == <<"(">> \o preds[Len(preds)] \o <<")">>
           front == SubSeq(preds, 1, Len(preds) - 1)
       IN  IF front = <<>> THEN last ELSE AndAll(front) \o KwAnd \o last

RECURSIVE CommaAll(_)
CommaAll(items) ==
  IF items = <<>> THEN <<>>
  ELSE LET front == SubSeq(items, 1, Len(items) - 1)
       IN  IF front = <<>> THEN items[Len(items)]
           ELSE CommaAll(front) \o CommaSp \o items[Len(items)]

ExpectedCap(lim) ==
  IF ~lim.set THEN <<>>
  ELSE IF lim.n = 100 THEN <<"T","O","P"," ","1","0","0"," ">>
  ELSE IF lim.n = 7 THEN <<"T","O","P"," ","7"," ">>
  ELSE <<"T","O","P"," ","?"," ">>

ExpectedWhere(wh) ==
  IF wh.kind = "none" THEN <<>>
  ELSE IF wh.kind = "str" THEN KwWhere \o wh.val[1]
  ELSE KwWhere \o AndAll(wh.val)

ExpectedOrder(ob) ==
  IF ob.kind = "none" THEN <<>>
  ELSE IF ob.kind = "str" THEN KwOrderBy \o ob.val[1]
  ELSE KwOrderBy \o CommaAll(ob.val)

ExpectedSql(cfg, name, columns) ==
  KwSelect \o ExpectedCap(cfg.limit)
    \o CommaAll([i \in 1..Len(columns) |-> <<"[">> \o columns[i] \o <<"]">>])
    \o KwFrom \o (IF cfg.schema.kind = "none" THEN DefaultSchema
                  ELSE cfg.schema.val[1])
    \o <<"]",".","[">> \o name \o <<"]"," ">>
    \o ExpectedWhere(cfg.where) \o <<" ">> \o ExpectedOrder(cfg.order_by)

C11_QueryShape ==
  pc = "fetch" =>
    LET cfg == tblCfg[CurTbl]
        iFrom  == IndexOf(sql, KwFrom)
        iWhere == IndexOf(sql, KwWhere)
        iOrder == IndexOf(sql, KwOrderBy)
    IN  /\ sql = ExpectedSql(cfg, TableName[CurTbl], cols)
        /\ StartsWith(sql, KwSelect)
        /\ cfg.limit.set <=> StartsWith(sql, KwSelect \o KwTop)
        /\ ~cfg.limit.set => StartsWith(sql, KwSelect \o <<"[">>)
        /\ iFrom > Len(KwSelect)
        /\ (cfg.where.kind = "none") <=> (iWhere = 0)
        /\ (cfg.order_by.kind = "none") <=> (iOrder = 0)
        /\ iWhere # 0 => iFrom < iWhere
        /\ iOrder # 0 => (iFrom < iOrder /\ iWhere < iOrder)
        /\ cfg.where = StrList(<<PredA, PredB>>) =>
             Contains(sql, <<"]"," ","W","H","E","R","E"," ","(","a","=","1",")",
                   " ","A","N","D"," ","(","b","=","2",")"," ">>)
        /\ cfg.where = OneStr(PredA) => Contains(sql, <<"]"," ","W","H","E",
              "R","E"," ","a","=","1"," ">>)
        /\ cfg.order_by = StrList(<<OrdX, OrdY>>) =>
             SubSeq(sql, iOrder, Len(sql)) = <<"O","R","D","E","R"," ","B","Y"," ","x",","," ","y">>
        /\ cfg.order_by = OneStr(OrdXDesc) =>
             SubSeq(sql, iOrder, Len(sql)) = <<"O","R","D","E","R"," ","B","Y",
                   " ","x"," ","D","E","S","C">>
        /\ cfg.limit = IntVal(100) => StartsWith(sql, <<"S","E","L","E","C",
              "T"," ","T","O","P"," ","1","0","0"," ","[">>)

C11_Witness ==
  /\ pc = "fetch"
  /\ tblCfg[CurTbl].limit = IntVal(100)
  /\ tblCfg[CurTbl].where = StrList(<<PredA, PredB>>)
  /\ tblCfg[CurTbl].order_by = StrList(<<OrdX, OrdY>>)
  /\ sql = <<"S","E","L","E","C","T"," ","T","O","P"," ","1","0","0",
        " ","[","I","d","]",","," ","["," ","F"," "," ","N","]"," ","F","R",
        "O","M"," ","[","d","b","o","]",".","[","o","r","d","]"," ","W","H",
        "E","R","E"," ","(","a","=","1",")"," ","A","N","D"," ","(","b","=",
        "2",")"," ","O","R","D","E","R"," ","B","Y"," ","x",","," ","y">>

\* C12: when date_column and lookback_days are configured, the built query
\* has a WHERE clause and that clause compares the date column to a cutoff,
\* also when 'where' is unconfigured.
C12_RecencyFilter ==
  (pc = "fetch" /\ tblCfg[CurTbl].date_column.kind # "none"
                /\ tblCfg[CurTbl].lookback_days.set) =>
    LET iWhere == IndexOf(sql, KwWhere)
    IN  /\ iWhere # 0
        /\ Contains(SubSeq(sql, iWhere, Len(sql)),
                    tblCfg[CurTbl].date_column.val[1])

\* C13: when a table's transfer fails after its drop was committed (the
\* source query, a fetch or an append raises), the committed destination
\* table is absent afterwards: neither the rows it had before the run nor
\* rows of the failed run are in it.  The same when the query returns no
\* row: the transfer completes with total 0 and the table stays dropped.
C13_FailedAfterDrop ==
  (pc \in {"query", "fetch", "append"} /\ status'[CurTbl] = "failed") =>
     /\ dest'[CurDest] = Absent
     /\ pc' = "crashed"

C13_ZeroRows ==
  (InTransfer /\ status'[CurTbl] = "completed" /\ cursorN = 0) =>
     /\ total = 0
     /\ appendCount[CurTbl] = 0
     /\ dest'[CurDest] = Absent

C13_LeftAbsent ==
  [][C13_FailedAfterDrop /\ C13_ZeroRows]_vars

C13_Witness ==
  /\ pc = "crashed"
  /\ run = 1
  /\ status[CurTbl] = "failed"
  /\ dropCount[CurTbl] = 1
  /\ appendCount[CurTbl] = 1
  /\ dest[CurDest] = Absent
  /\ \E t \in Tables :
       /\ t # CurTbl
       /\ status[t] = "completed"
       /\ queryCount[t] = 1
       /\ appendCount[t] = 0
       /\ dest[sanitize(TableName[t])] = Absent

====
